---- MODULE Spec2Model ----
(***************************************************************************)
(* Node lifecycle manager of devbao (pkg/bao/node.go): in-memory Nodes,    *)
(* the per-node directory with node.json and config.hcl, and the server    *)
(* processes the supervisor launches and signals.                          *)
(***************************************************************************)
EXTENDS Integers, Sequences, FiniteSets, TLC

VARIABLES
    fs,      \* node directory name -> NoDir or the directory's files
    live,    \* pids of the server processes that are running
    owner,   \* pid -> name of the node it was launched for (NoProc = never launched)
    nextPid, \* the pid the next launch gets
    node,    \* supervisor -> its in-memory Node (NoNode when it holds none)
    pc,      \* supervisor -> position inside the operation it is running
    op,      \* supervisor -> the operation it was asked to run
    disk,    \* supervisor -> the Node that Kill reloaded from disk
    trace    \* supervisor -> what the running operation did so far (observer)

vars == <<fs, live, owner, nextPid, node, pc, op, disk, trace>>

----------------------------------------------------------------------------
(* Bounds *)

MaxPid == 2        \* launches in one behaviour
MaxListeners == 2  \* listeners of a configuration
MaxOpts == 3       \* options handed to BuildNode

Pids == 1..MaxPid

----------------------------------------------------------------------------
(* Values *)

Nil == [k |-> "nil"]
IsNil(x) == x = Nil

NODE_JSON_NAME == "node.json"
INSTANCE_CONFIG_NAME == "config.hcl"
DATA_NAME == "data"

NodeTypes == {"", "bao", "vault"}

NodeConfig(ls, st, dv) == [listeners |-> ls, storage |-> st, dev |-> dv]
EmptyConfig == NodeConfig(<<>>, Nil, Nil)

MkNode(nm, ty, ex, cf) == [name |-> nm, type |-> ty, exec |-> ex, config |-> cf]

ExecEnvironment(ar, dr, ad, pd) ==
    [k |-> "exec", args |-> ar, directory |-> dr, connect |-> ad, pid |-> pd]

Listener(a) == [k |-> "listener", type |-> "tcp", address |-> a]
Storage(t) == [k |-> "storage", type |-> t]
DevConfig(tok) == [k |-> "dev", token |-> tok]

Arg(a) == [a |-> a, p |-> ""]
ConfigArg(path) == [a |-> "-config=", p |-> path]

----------------------------------------------------------------------------
(* NodeConfig: validation and the artifacts derived from it *)

\* Non-dev configurations need at least one listener and a storage backend.
ConfigValidate(c) ==
    IF ~IsNil(c.dev) THEN "ok"
    ELSE IF Len(c.listeners) = 0 THEN "err"
    ELSE IF IsNil(c.storage) THEN "err"
    ELSE "ok"

DEV_ADDRESS == "127.0.0.1:8200"

GetConnectAddr(c) ==
    IF Len(c.listeners) > 0 THEN [err |-> FALSE, addr |-> c.listeners[1].address]
    ELSE IF ~IsNil(c.dev) THEN [err |-> FALSE, addr |-> DEV_ADDRESS]
    ELSE [err |-> TRUE, addr |-> ""]

AddArgs(c, directory) ==
    <<Arg("server")>> \o (IF IsNil(c.dev) THEN <<>> ELSE <<Arg("-dev")>>)

\* The instance configuration body: empty exactly when there is neither a
\* listener nor a storage block to render.
ToConfig(c, directory) ==
    IF Len(c.listeners) = 0 /\ IsNil(c.storage) THEN Nil
    ELSE [k |-> "hcl", listeners |-> c.listeners, storage |-> c.storage,
          directory |-> directory]

----------------------------------------------------------------------------
(* Node.Validate: defaults the name, checks the type, validates the config *)

\* Mutant: the two default names are exchanged
ValidateName_Exchanged(n) ==
    IF n.name = ""
    THEN (IF IsNil(n.config.dev) THEN "prod" ELSE "dev")
    ELSE n.name

\* Mutant: the name is defaulted whether or not one was given
ValidateName_Always(n) ==
    IF IsNil(n.config.dev) THEN "dev" ELSE "prod"

ValidateName(n) ==
    IF n.name = ""
    THEN (IF IsNil(n.config.dev) THEN "dev" ELSE "prod")
    ELSE n.name

\* Mutant: the type is not checked
Validate_AnyType(n) ==
    LET m == [n EXCEPT !.name = ValidateName(n)] IN
    [res |-> ConfigValidate(m.config),
     why |-> IF ConfigValidate(m.config) = "ok" THEN "" ELSE "config",
     node |-> m]

\* [res, node]: the node after the call (the name is defaulted even when the
\* call fails afterwards).
Validate(n) ==
    LET m == [n EXCEPT !.name = ValidateName(n)] IN
    IF m.type # "" /\ m.type # "bao" /\ m.type # "vault"
    THEN [res |-> "err", why |-> "type", node |-> m]
    ELSE [res |-> ConfigValidate(m.config),
          why |-> IF ConfigValidate(m.config) = "ok" THEN "" ELSE "config",
          node |-> m]

\* filepath.Join(NodeBaseDirectory(), n.Name) cleans the path it builds: an
\* empty name is the base directory itself, and a trailing separator is
\* dropped, so "n1/" names the directory of "n1".
BaseDirectory == ""
TrailingSeparator == [x \in {"n1/"} |-> "n1"]
Join(base, name) ==
    IF name \in DOMAIN TrailingSeparator THEN TrailingSeparator[name] ELSE name
GetDirectory(n) == Join(BaseDirectory, n.name)

----------------------------------------------------------------------------
(* JSON: the text encoding/json writes, and the generic tree the decoder   *)
(* builds when it decodes into map[string]interface{}                      *)

JNull == [t |-> "null"]
JStr(s) == [t |-> "str", v |-> s]
JNum(i) == [t |-> "num", v |-> i]
JArr(q) == [t |-> "arr", v |-> q]
JObj(f) == [t |-> "obj", v |-> f]

NoFile == [t |-> "nofile"]
Truncated == [t |-> "trunc"]   \* a file cut short: not decodable

HasKey(o, key) == key \in DOMAIN o.v

\* A JSON number decoded into interface{} is a float64 and is written back
\* as an integer literal when exec is re-marshalled: exact for every integer
\* below 2^53, which covers every pid.
ToFloat64(i) == i

EncodeArg(a) == JObj([a |-> JStr(a.a), p |-> JStr(a.p)])
EncodeExec(e) ==
    IF IsNil(e) THEN JNull
    ELSE JObj([args |-> JArr([i \in 1..Len(e.args) |-> EncodeArg(e.args[i])]),
               directory |-> JStr(e.directory),
               connect_address |-> JStr(e.connect),
               pid |-> JNum(e.pid)])

EncodeListener(l) == JObj([type |-> JStr(l.type), address |-> JStr(l.address)])
EncodeStorage(s) == JObj([type |-> JStr(s.type)])
EncodeDev(d) == JObj([token |-> JStr(d.token)])

\* listeners always an array; storage and dev are left out when absent.
ConfigKeys(c) ==
    {"listeners"} \cup (IF IsNil(c.storage) THEN {} ELSE {"storage"})
                  \cup (IF IsNil(c.dev) THEN {} ELSE {"dev"})
EncodeConfig(c) ==
    JObj([key \in ConfigKeys(c) |->
            CASE key = "listeners" -> JArr([i \in 1..Len(c.listeners) |-> EncodeListener(c.listeners[i])])
              [] key = "storage" -> EncodeStorage(c.storage)
              [] key = "dev" -> EncodeDev(c.dev)])

\* json.NewEncoder(configFile).Encode(n)
EncodeNode(n) ==
    JObj([name |-> JStr(n.name), type |-> JStr(n.type),
          exec |-> EncodeExec(n.exec), config |-> EncodeConfig(n.config)])

IsStrField(o, key) == HasKey(o, key) /\ o.v[key].t = "str"

DecodeArgOk(j) == j.t = "obj" /\ IsStrField(j, "a") /\ IsStrField(j, "p")
DecodeArg(j) == [a |-> j.v["a"].v, p |-> j.v["p"].v]

\* json.Unmarshal of the re-marshalled exec value into *ExecEnvironment:
\* null gives a nil pointer, an object fills the fields it names (the
\* others keep their zero value), anything else is an error.
UnmarshalExecOk(j) ==
    \/ j.t = "null"
    \/ /\ j.t = "obj"
       /\ HasKey(j, "args") =>
            \/ j.v["args"].t = "null"
            \/ /\ j.v["args"].t = "arr"
               /\ \A i \in 1..Len(j.v["args"].v) : DecodeArgOk(j.v["args"].v[i])
       /\ HasKey(j, "directory") => j.v["directory"].t \in {"str", "null"}
       /\ HasKey(j, "connect_address") => j.v["connect_address"].t \in {"str", "null"}
       /\ HasKey(j, "pid") => j.v["pid"].t \in {"num", "null"}

StrOrZero(j, key) == IF IsStrField(j, key) THEN j.v[key].v ELSE ""

UnmarshalExec(j) ==
    IF j.t = "null" THEN Nil
    ELSE ExecEnvironment(
            IF HasKey(j, "args") /\ j.v["args"].t = "arr"
                THEN [i \in 1..Len(j.v["args"].v) |-> DecodeArg(j.v["args"].v[i])]
                ELSE <<>>,
            StrOrZero(j, "directory"),
            StrOrZero(j, "connect_address"),
            IF HasKey(j, "pid") /\ j.v["pid"].t = "num"
                THEN ToFloat64(j.v["pid"].v) ELSE 0)

DecodeListenerOk(j) == j.t = "obj" /\ IsStrField(j, "type") /\ IsStrField(j, "address")
DecodeListener(j) == [k |-> "listener", type |-> j.v["type"].v, address |-> j.v["address"].v]
DecodeStorageOk(j) == j.t = "obj" /\ IsStrField(j, "type")
DecodeDevOk(j) == j.t = "obj" /\ IsStrField(j, "token")

\* NodeConfig.FromInterface: rebuilds the listeners, the storage and the dev
\* configuration from the generic tree.
ConfigFromInterfaceOk(j) ==
    /\ HasKey(j, "listeners") =>
        \/ j.v["listeners"].t = "null"
        \/ /\ j.v["listeners"].t = "arr"
           /\ \A i \in 1..Len(j.v["listeners"].v) : DecodeListenerOk(j.v["listeners"].v[i])
    /\ HasKey(j, "storage") => (j.v["storage"].t = "null" \/ DecodeStorageOk(j.v["storage"]))
    /\ HasKey(j, "dev") => (j.v["dev"].t = "null" \/ DecodeDevOk(j.v["dev"]))

ConfigFromInterface(j) ==
    NodeConfig(
        IF HasKey(j, "listeners") /\ j.v["listeners"].t = "arr"
            THEN [i \in 1..Len(j.v["listeners"].v) |->
                        DecodeListener(j.v["listeners"].v[i])]
            ELSE <<>>,
        IF HasKey(j, "storage") /\ j.v["storage"].t = "obj"
            THEN Storage(j.v["storage"].v["type"].v) ELSE Nil,
        IF HasKey(j, "dev") /\ j.v["dev"].t = "obj"
            THEN DevConfig(j.v["dev"].v["token"].v) ELSE Nil)

\* Mutant: the exec value of the snapshot is not decoded
FromInterface_NoExec(n, iface) ==
    IF ~IsStrField(iface, "name") THEN [res |-> "panic", node |-> n]
    ELSE IF ~IsStrField(iface, "type") THEN [res |-> "panic", node |-> n]
    ELSE IF ~(HasKey(iface, "config") /\ iface.v["config"].t = "obj")
        THEN [res |-> "panic", node |-> n]
    ELSE IF ~ConfigFromInterfaceOk(iface.v["config"])
        THEN [res |-> "err", node |-> n]
    ELSE [res |-> "ok",
          node |-> [n EXCEPT !.name = iface.v["name"].v,
                             !.type = iface.v["type"].v,
                             !.config = ConfigFromInterface(iface.v["config"])]]

\* Node.FromInterface. iface is the decoded object. The assertions
\* iface["name"].(string), iface["type"].(string) and
\* iface["config"].(map[string]interface{}) panic when the value is missing
\* or of another type. [res, node], node being the receiver after the call.
FromInterface(n, iface) ==
    IF ~IsStrField(iface, "name") THEN [res |-> "panic", node |-> n]
    ELSE LET n1 == [n EXCEPT !.name = iface.v["name"].v] IN
    IF ~IsStrField(iface, "type") THEN [res |-> "panic", node |-> n1]
    ELSE LET n2 == [n1 EXCEPT !.type = iface.v["type"].v] IN
    IF HasKey(iface, "exec") /\ ~UnmarshalExecOk(iface.v["exec"])
        THEN [res |-> "err", node |-> n2]
    ELSE LET n3 == IF HasKey(iface, "exec")
                   THEN [n2 EXCEPT !.exec = UnmarshalExec(iface.v["exec"])]
                   ELSE n2 IN
    IF ~(HasKey(iface, "config") /\ iface.v["config"].t = "obj")
        THEN [res |-> "panic", node |-> n3]
    ELSE IF ~ConfigFromInterfaceOk(iface.v["config"])
        THEN [res |-> "err", node |-> n3]
    ELSE [res |-> "ok",
          node |-> [n3 EXCEPT !.config = ConfigFromInterface(iface.v["config"])]]

----------------------------------------------------------------------------
(* The filesystem under NodeBaseDirectory()                                *)

NodeNames == {"n1"}                       \* the names callers pass in
DirNames == NodeNames \cup {"dev", "prod"}  \* and the names Validate defaults to

NoDir == [k |-> "nodir"]
\* json: node.json, hcl: config.hcl, data: the server's storage data;
\* old: the files that were there when the running operation began.
Dir(j, h, d, o) == [k |-> "dir", json |-> j, hcl |-> h, data |-> d, old |-> o]
EmptyDir == Dir(NoFile, NoFile, FALSE, {})

DirExists(f, d) == d \in DirNames /\ f[d] # NoDir

Files(dv) ==
    IF dv = NoDir THEN {}
    ELSE (IF dv.json # NoFile THEN {NODE_JSON_NAME} ELSE {})
         \cup (IF dv.hcl # NoFile THEN {INSTANCE_CONFIG_NAME} ELSE {})
         \cup (IF dv.data THEN {DATA_NAME} ELSE {})

MarkOld(dv) == IF dv = NoDir THEN dv ELSE [dv EXCEPT !.old = Files(dv)]

\* Mutant: the directory is created afresh
MkdirAll_Fresh(f, d) == [f EXCEPT ![d] = EmptyDir]

\* os.MkdirAll(directory, 0755): creates what is missing, keeps what exists
MkdirAll(f, d) == IF f[d] = NoDir THEN [f EXCEPT ![d] = EmptyDir] ELSE f

\* Mutant: only the snapshot is removed
RemoveAll_JsonOnly(f, d) ==
    IF d \in DirNames /\ f[d] # NoDir
    THEN [f EXCEPT ![d].json = NoFile, ![d].old = @ \ {NODE_JSON_NAME}]
    ELSE f

\* os.RemoveAll(directory): the directory and everything below it; the base
\* directory holds every node's directory
RemoveAll(f, d) ==
    IF d = BaseDirectory THEN [x \in DirNames |-> NoDir]
    ELSE IF d \in DirNames THEN [f EXCEPT ![d] = NoDir]
    ELSE f

\* os.OpenFile(path, O_RDWR|O_CREATE|O_TRUNC) then a write of content; the
\* write can fail after the open has truncated the file
WriteFile(f, d, file, content, writeOk) ==
    LET c == IF writeOk THEN content ELSE Truncated IN
    IF file = NODE_JSON_NAME
    THEN [f EXCEPT ![d].json = c, ![d].old = @ \ {NODE_JSON_NAME}]
    ELSE [f EXCEPT ![d].hcl = c, ![d].old = @ \ {INSTANCE_CONFIG_NAME}]

----------------------------------------------------------------------------
(* Loading a node from disk                                                *)

NoNode == [k |-> "nonode"]
ZeroNode(name) == MkNode(name, "", Nil, EmptyConfig)

\* Node.LoadConfig: open node.json, decode it into a generic map, translate.
\* A JSON null decodes into a nil map without error.
\* io names the filesystem call that failed ("" when none did).
LoadConfig(n, f, openOk) ==
    LET d == GetDirectory(n) IN
    IF ~(DirExists(f, d) /\ f[d].json # NoFile /\ openOk)
        THEN [res |-> "err", node |-> n, io |-> "open"]
    ELSE LET file == f[d].json
             r == FromInterface(n, IF file.t = "null" THEN JObj(<<>>) ELSE file)
         IN
    IF file.t \notin {"null", "obj"} THEN [res |-> "err", node |-> n, io |-> "read"]
    ELSE [res |-> r.res, node |-> r.node, io |-> ""]

\* LoadNode(name): [res, node], node being NoNode unless res is "ok"
LoadNode(name, f, openOk) ==
    LET l == LoadConfig(ZeroNode(name), f, openOk) IN
    IF l.res # "ok" THEN [res |-> l.res, node |-> NoNode, io |-> l.io]
    ELSE LET v == Validate(l.node) IN
    IF v.res # "ok" THEN [res |-> "err", node |-> NoNode, io |-> ""]
    ELSE [res |-> "ok", node |-> v.node, io |-> ""]

\* BuildNode(name, product, opts...): classify the options, then validate.
\* [res, node, index]: index is the position of the first unknown option.
\* Mutant: the first Storage option is kept instead of the last
RECURSIVE Classify_FirstStorage(_, _, _)
Classify_FirstStorage(c, opts, i) ==
    IF i > Len(opts) THEN [res |-> "ok", config |-> c, index |-> 0]
    ELSE LET o == opts[i] IN
    IF o.k = "listener"
        THEN Classify_FirstStorage([c EXCEPT !.listeners = Append(@, o)], opts, i + 1)
    ELSE IF o.k = "storage"
        THEN Classify_FirstStorage(
                IF IsNil(c.storage) THEN [c EXCEPT !.storage = o] ELSE c, opts, i + 1)
    ELSE IF o.k = "dev" THEN Classify_FirstStorage([c EXCEPT !.dev = o], opts, i + 1)
    ELSE [res |-> "err", config |-> c, index |-> i - 1]

RECURSIVE Classify(_, _, _)
Classify(c, opts, i) ==
    IF i > Len(opts) THEN [res |-> "ok", config |-> c, index |-> 0]
    ELSE LET o == opts[i] IN
    IF o.k = "listener"
        THEN Classify([c EXCEPT !.listeners = Append(@, o)], opts, i + 1)
    ELSE IF o.k = "storage" THEN Classify([c EXCEPT !.storage = o], opts, i + 1)
    ELSE IF o.k = "dev" THEN Classify([c EXCEPT !.dev = o], opts, i + 1)
    ELSE [res |-> "err", config |-> c, index |-> i - 1]

BuildNode(name, product, opts) ==
    LET c == Classify(EmptyConfig, opts, 1) IN
    IF c.res # "ok" THEN [res |-> "err", node |-> NoNode, index |-> c.index]
    ELSE LET v == Validate(MkNode(name, product, Nil, c.config)) IN
    IF v.res # "ok" THEN [res |-> "err", node |-> NoNode, index |-> 0 - 1]
    ELSE [res |-> "ok", node |-> v.node, index |-> 0 - 1]

----------------------------------------------------------------------------
(* Server processes                                                        *)

NoProc == "-"

\* ExecEnvironment.Kill: signals the recorded pid; fails when there is no
\* pid or no such process. [res, live]
ExecKill(e, lv) ==
    IF e.pid # 0 /\ e.pid \in lv
    THEN [res |-> "ok", live |-> lv \ {e.pid}]
    ELSE [res |-> "err", live |-> lv]

\* The launcher Resume selects by type; "none" is the default branch
\* (unknown execution type), which launches nothing.
LauncherFor(type) ==
    CASE type = "" -> "generic"
      [] type = "bao" -> "bao"
      [] type = "vault" -> "vault"
      [] OTHER -> "none"

----------------------------------------------------------------------------
(* Node.buildExec and Node.SaveConfig as functions of the node and the     *)
(* filesystem: [res, node, fs, ev], ev being the side effects in order     *)

SaveInstanceConfig(f, d, config, openOk, writeOk) ==
    IF ~(DirExists(f, d) /\ openOk)
        THEN [res |-> "err", fs |-> f, ev |-> <<>>, io |-> "open"]
    ELSE [res |-> IF writeOk THEN "ok" ELSE "err",
          fs |-> WriteFile(f, d, INSTANCE_CONFIG_NAME, config, writeOk),
          ev |-> <<"hcl">>, io |-> IF writeOk THEN "" ELSE "write"]

\* The call of buildExec that fails for a reason outside the node: the
\* directory creation, one of the three NodeConfig derivations, the open or
\* the write of config.hcl
BuildExecFaults == {"none", "mkdir", "addr", "args", "config", "open", "write"}

BuildExecResult(r, n, f, e, i) == [res |-> r, node |-> n, fs |-> f, ev |-> e, io |-> i]

\* Mutant: the ExecEnvironment is installed before config.hcl is persisted
BuildExec_Partial(n, f, fail) ==
    LET v == Validate(n)
        m == v.node
        directory == GetDirectory(m)
        f1 == MkdirAll(f, directory)
        addr == GetConnectAddr(m.config)
        args == AddArgs(m.config, directory)
        config == ToConfig(m.config, directory)
        sic == SaveInstanceConfig(f1, directory, config, fail # "open", fail # "write")
        x == [m EXCEPT !.exec = ExecEnvironment(args, directory, addr.addr, 0)]
    IN
    IF v.res # "ok" THEN BuildExecResult("err", m, f, <<>>, "")
    ELSE IF fail = "mkdir" THEN BuildExecResult("err", m, f, <<>>, "mkdir")
    ELSE IF fail = "addr" \/ addr.err THEN BuildExecResult("err", m, f1, <<"mkdir">>, "")
    ELSE IF fail = "args" THEN BuildExecResult("err", m, f1, <<"mkdir">>, "")
    ELSE IF fail = "config" \/ (IsNil(config) /\ IsNil(m.config.dev))
        THEN BuildExecResult("err", m, f1, <<"mkdir">>, "")
    ELSE IF IsNil(config) THEN BuildExecResult("ok", x, f1, <<"mkdir">>, "")
    ELSE IF sic.res # "ok"
        THEN BuildExecResult("err", x, sic.fs, <<"mkdir">> \o sic.ev, sic.io)
    ELSE BuildExecResult("ok",
            [m EXCEPT !.exec = ExecEnvironment(Append(args, ConfigArg(directory)),
                                               directory, addr.addr, 0)],
            sic.fs, <<"mkdir">> \o sic.ev, "")

\* Node.buildExec: n.Exec is assigned once, after every step has succeeded
BuildExec(n, f, fail) ==
    LET v == Validate(n)
        m == v.node
        directory == GetDirectory(m)
        f1 == MkdirAll(f, directory)
        addr == GetConnectAddr(m.config)
        args == AddArgs(m.config, directory)
        config == ToConfig(m.config, directory)
        sic == SaveInstanceConfig(f1, directory, config, fail # "open", fail # "write")
    IN
    IF v.res # "ok" THEN BuildExecResult("err", m, f, <<>>, "")
    ELSE IF fail = "mkdir" THEN BuildExecResult("err", m, f, <<>>, "mkdir")
    ELSE IF fail = "addr" \/ addr.err THEN BuildExecResult("err", m, f1, <<"mkdir">>, "")
    ELSE IF fail = "args" THEN BuildExecResult("err", m, f1, <<"mkdir">>, "")
    ELSE IF fail = "config" \/ (IsNil(config) /\ IsNil(m.config.dev))
        THEN BuildExecResult("err", m, f1, <<"mkdir">>, "")
    ELSE IF IsNil(config)
        THEN BuildExecResult("ok",
                [m EXCEPT !.exec = ExecEnvironment(args, directory, addr.addr, 0)],
                f1, <<"mkdir">>, "")
    ELSE IF sic.res # "ok"
        THEN BuildExecResult("err", m, sic.fs, <<"mkdir">> \o sic.ev, sic.io)
    ELSE BuildExecResult("ok",
            [m EXCEPT !.exec = ExecEnvironment(Append(args, ConfigArg(directory)),
                                               directory, addr.addr, 0)],
            sic.fs, <<"mkdir">> \o sic.ev, "")

\* Mutant: the node is saved without being validated
SaveConfig_Unchecked(n, f, openOk, writeOk) ==
    LET m == n
        d == GetDirectory(m)
    IN
    IF ~(DirExists(f, d) /\ openOk)
        THEN [res |-> "err", node |-> m, fs |-> f, ev |-> <<>>, io |-> "open"]
    ELSE [res |-> IF writeOk THEN "ok" ELSE "err", node |-> m,
          fs |-> WriteFile(f, d, NODE_JSON_NAME, EncodeNode(m), writeOk),
          ev |-> <<"json">>, io |-> IF writeOk THEN "" ELSE "write"]

\* Node.SaveConfig: validate, then truncate and rewrite node.json
SaveConfig(n, f, openOk, writeOk) ==
    LET v == Validate(n)
        m == v.node
        d == GetDirectory(m)
    IN
    IF v.res # "ok" THEN [res |-> "err", node |-> m, fs |-> f, ev |-> <<>>, io |-> ""]
    ELSE IF ~(DirExists(f, d) /\ openOk)
        THEN [res |-> "err", node |-> m, fs |-> f, ev |-> <<>>, io |-> "open"]
    ELSE [res |-> IF writeOk THEN "ok" ELSE "err", node |-> m,
          fs |-> WriteFile(f, d, NODE_JSON_NAME, EncodeNode(m), writeOk),
          ev |-> <<"json">>, io |-> IF writeOk THEN "" ELSE "write"]

\* Whether os.RemoveAll(d) finds anything to remove
Exists(f, d) ==
    IF d = BaseDirectory THEN \E x \in DirNames : f[x] # NoDir ELSE DirExists(f, d)

\* Mutant: a directory that is not there is an error, as with os.Remove
CleanNode_Strict(n, f, ok) ==
    IF Exists(f, GetDirectory(n)) /\ ok
    THEN [res |-> "ok", node |-> n, fs |-> RemoveAll(f, GetDirectory(n)),
          ev |-> <<"rmall">>, io |-> ""]
    ELSE [res |-> "err", node |-> n, fs |-> f, ev |-> <<>>, io |-> "rmall"]

\* Node.Clean: os.RemoveAll returns nil for a path that does not exist and
\* can fail only when there is something to remove
CleanNode(n, f, ok) ==
    IF Exists(f, GetDirectory(n)) /\ ~ok
    THEN [res |-> "err", node |-> n, fs |-> f, ev |-> <<>>, io |-> "rmall"]
    ELSE [res |-> "ok", node |-> n, fs |-> RemoveAll(f, GetDirectory(n)),
          ev |-> <<"rmall">>, io |-> ""]

\* ListNodes: the error of os.ReadDir is formatted and dropped; the result
\* is built from the (then empty) entries and returned with a nil error
ListNodes(f, readOk) ==
    [res |-> "ok",
     names |-> IF readOk THEN {d \in DirNames : f[d] # NoDir} ELSE {},
     io |-> IF readOk THEN "" ELSE "readdir"]

----------------------------------------------------------------------------
(* Supervisor invocations                                                  *)

Sup == {1, 2}

\* What an operation did so far: the results of its parts (kill, clean,
\* resume, launch), its own result (res), whether its node was valid when it
\* was called (valid0), the files its directory held then (pre), the pid it
\* signalled (sig) and launched (pid), its side effects in order (ev), and
\* whether the invocation before it died between launch and snapshot (lost).
\* save, load and opened are those of a direct SaveConfig and LoadNode; in,
\* index and hist are the arguments, the reported option index and the
\* successive results of a direct BuildNode, Validate, Clean or ListNodes;
\* bin is the branch the launcher dispatch of Resume took.
NoTrace == [kill |-> "none", clean |-> "none", resume |-> "none",
            launch |-> "none", res |-> "none", valid0 |-> TRUE, pre |-> {},
            sig |-> 0, pid |-> 0, ev |-> <<>>, lost |-> FALSE,
            save |-> "none", load |-> "none", opened |-> FALSE,
            in |-> Nil, index |-> 0 - 1, hist |-> <<>>, bin |-> ""]

PreFiles(n, f) == IF DirExists(f, GetDirectory(n)) THEN Files(f[GetDirectory(n)]) ELSE {}

\* Mutant: Kill reloads only when there is no ExecEnvironment at all
NoHandle_NilOnly(n) == IsNil(n.exec)

\* Node.Kill: n.Exec == nil || n.Exec.Pid == 0
NoHandle(n) == IF IsNil(n.exec) THEN TRUE ELSE n.exec.pid = 0

AddEv(t, e) == [t EXCEPT !.ev = @ \o e]

Busy(s) == pc[s] \notin {"idle", "ready"}

\* Inputs of the lifecycle
L1 == Listener("127.0.0.1:8300")
S1 == Storage("file")
D1 == DevConfig("")
LifecycleBuilds ==
    {<<"", <<D1>>>>, <<"bao", <<L1, S1>>>>, <<"vault", <<L1, S1>>>>,
     <<"bad", <<D1>>>>, <<"bao", <<S1>>>>}
LiteralNodes ==
    {MkNode("n1", "bad", Nil, NodeConfig(<<>>, Nil, D1)),
     MkNode("n1", "bao", Nil, EmptyConfig),
     MkNode("", "bad", Nil, NodeConfig(<<>>, Nil, D1))}

Init ==
    /\ fs = [d \in DirNames |-> NoDir]
    /\ live = {}
    /\ owner = [p \in Pids |-> NoProc]
    /\ nextPid = 1
    /\ node = [s \in Sup |-> NoNode]
    /\ pc = [s \in Sup |-> "idle"]
    /\ op = [s \in Sup |-> "none"]
    /\ disk = [s \in Sup |-> NoNode]
    /\ trace = [s \in Sup |-> NoTrace]

\* A caller outside the package builds a node with BuildNode...
Build(s, name, product, opts) ==
    /\ pc[s] = "idle"
    /\ BuildNode(name, product, opts).res = "ok"
    /\ node' = [node EXCEPT ![s] = BuildNode(name, product, opts).node]
    /\ pc' = [pc EXCEPT ![s] = "ready"]
    /\ UNCHANGED <<fs, live, owner, nextPid, op, disk, trace>>

\* ... or fills the exported fields of a Node itself ...
Literal(s, n) ==
    /\ pc[s] = "idle"
    /\ node' = [node EXCEPT ![s] = n]
    /\ pc' = [pc EXCEPT ![s] = "ready"]
    /\ UNCHANGED <<fs, live, owner, nextPid, op, disk, trace>>

\* ... or loads it by name.
Load(s, name, openOk) ==
    /\ pc[s] = "idle"
    /\ LET l == LoadNode(name, fs, openOk) IN
        /\ l.res # "err"
        /\ node' = [node EXCEPT ![s] = l.node]
        /\ pc' = [pc EXCEPT ![s] = IF l.res = "ok" THEN "ready" ELSE "panic"]
    /\ UNCHANGED <<fs, live, owner, nextPid, op, disk, trace>>

FirstStep(o) ==
    CASE o = "Start" -> "kill"
      [] o = "Kill" -> "kill"
      [] o = "Clean" -> "clean"
      [] o = "Resume" -> "resume"

\* Mutant: an operation starts only while no other supervisor runs one
Call_Exclusive(s, o) ==
    /\ pc[s] = "ready"
    /\ \A x \in Sup \ {s} : ~Busy(x)
    /\ op' = [op EXCEPT ![s] = o]
    /\ pc' = [pc EXCEPT ![s] = FirstStep(o)]
    /\ trace' = [trace EXCEPT ![s] =
                    [NoTrace EXCEPT !.valid0 = (Validate(node[s]).res = "ok"),
                                    !.pre = PreFiles(node[s], fs),
                                    !.lost = trace[s].lost]]
    /\ UNCHANGED <<fs, live, owner, nextPid, node, disk>>

\* The caller invokes Start, Kill, Clean or Resume on its Node; nothing
\* makes it wait for another supervisor
Call(s, o) ==
    /\ pc[s] = "ready"
    /\ op' = [op EXCEPT ![s] = o]
    /\ pc' = [pc EXCEPT ![s] = FirstStep(o)]
    /\ trace' = [trace EXCEPT ![s] =
                    [NoTrace EXCEPT !.valid0 = (Validate(node[s]).res = "ok"),
                                    !.pre = PreFiles(node[s], fs),
                                    !.lost = trace[s].lost]]
    /\ UNCHANGED <<fs, live, owner, nextPid, node, disk>>

\* Mutant: Start gives up when its Kill fails
AfterKill_Abort(s, t, r) ==
    IF op[s] = "Start" /\ r = "ok"
    THEN /\ pc' = [pc EXCEPT ![s] = "clean"]
         /\ trace' = [trace EXCEPT ![s] = [t EXCEPT !.kill = r]]
    ELSE /\ pc' = [pc EXCEPT ![s] = "done"]
         /\ trace' = [trace EXCEPT ![s] = [t EXCEPT !.kill = r, !.res = r]]

\* Node.Start: _ = n.Kill(); the result of Kill is dropped
AfterKill(s, t, r) ==
    IF op[s] = "Start"
    THEN /\ pc' = [pc EXCEPT ![s] = "clean"]
         /\ trace' = [trace EXCEPT ![s] = [t EXCEPT !.kill = r]]
    ELSE /\ pc' = [pc EXCEPT ![s] = "done"]
         /\ trace' = [trace EXCEPT ![s] = [t EXCEPT !.kill = r, !.res = r]]

\* Node.Start: a failed Clean ends Start, otherwise Resume follows
AfterClean(s, t, r) ==
    IF op[s] = "Start" /\ r = "ok"
    THEN /\ pc' = [pc EXCEPT ![s] = "resume"]
         /\ trace' = [trace EXCEPT ![s] = [t EXCEPT !.clean = r]]
    ELSE /\ pc' = [pc EXCEPT ![s] = "done"]
         /\ trace' = [trace EXCEPT ![s] = [t EXCEPT !.clean = r, !.res = r]]

\* Node.Start: return n.Resume()
AfterResume(s, t, r) ==
    /\ pc' = [pc EXCEPT ![s] = "done"]
    /\ trace' = [trace EXCEPT ![s] = [t EXCEPT !.resume = r, !.res = r]]

\* Mutant: Resume saves the snapshot whatever the launcher returned
AfterLaunch_SaveAnyway(s, t, r) ==
    /\ pc' = [pc EXCEPT ![s] = "save"]
    /\ trace' = [trace EXCEPT ![s] = t]

\* Node.Resume: a launcher error is returned, otherwise SaveConfig follows
AfterLaunch(s, t, r) ==
    IF r = "ok"
    THEN /\ pc' = [pc EXCEPT ![s] = "save"]
         /\ trace' = [trace EXCEPT ![s] = t]
    ELSE AfterResume(s, t, r)

\* Node.Kill without a live in-memory handle: LoadNode(n.Name)
KillLoad(s, openOk) ==
    /\ pc[s] = "kill"
    /\ NoHandle(node[s])
    /\ LET l == LoadNode(node[s].name, fs, openOk)
           t == AddEv(trace[s], <<"read">>)
       IN CASE l.res = "ok" ->
                /\ disk' = [disk EXCEPT ![s] = l.node]
                /\ pc' = [pc EXCEPT ![s] = "kill_signal"]
                /\ trace' = [trace EXCEPT ![s] = t]
            [] l.res = "err" ->
                /\ AfterKill(s, t, "err")
                /\ UNCHANGED disk
            [] OTHER ->
                /\ pc' = [pc EXCEPT ![s] = "panic"]
                /\ trace' = [trace EXCEPT ![s] = t]
                /\ UNCHANGED disk
    /\ UNCHANGED <<fs, live, owner, nextPid, node, op>>

\* Mutant: Kill signals every live process launched for the node's name
KillDisk_ByName(s) ==
    /\ pc[s] = "kill_signal"
    /\ live' = {p \in live : owner[p] # disk[s].name}
    /\ AfterKill(s, AddEv(trace[s], <<"signal">>), "ok")
    /\ UNCHANGED <<fs, owner, nextPid, node, op, disk>>

\* Mutant: the reloaded node replaces the caller's
KillDisk_Reconcile(s) ==
    /\ pc[s] = "kill_signal"
    /\ node' = [node EXCEPT ![s] = disk[s]]
    /\ IF IsNil(disk[s].exec)
       THEN /\ pc' = [pc EXCEPT ![s] = "panic"]
            /\ UNCHANGED <<live, trace>>
       ELSE LET k == ExecKill(disk[s].exec, live) IN
            /\ live' = k.live
            /\ AfterKill(s, [AddEv(trace[s], <<"signal">>)
                                EXCEPT !.sig = disk[s].exec.pid], k.res)
    /\ UNCHANGED <<fs, owner, nextPid, op, disk>>

\* Node.Kill: disk.Exec.Kill() on the reloaded node
KillDisk(s) ==
    /\ pc[s] = "kill_signal"
    /\ IF IsNil(disk[s].exec)
       THEN /\ pc' = [pc EXCEPT ![s] = "panic"]
            /\ UNCHANGED <<live, trace>>
       ELSE LET k == ExecKill(disk[s].exec, live) IN
            /\ live' = k.live
            /\ AfterKill(s, [AddEv(trace[s], <<"signal">>)
                                EXCEPT !.sig = disk[s].exec.pid], k.res)
    /\ UNCHANGED <<fs, owner, nextPid, node, op, disk>>

\* Node.Kill with a live in-memory handle: n.Exec.Kill()
KillMem(s) ==
    /\ pc[s] = "kill"
    /\ ~NoHandle(node[s])
    /\ LET k == ExecKill(node[s].exec, live) IN
        /\ live' = k.live
        /\ AfterKill(s, [AddEv(trace[s], <<"signal">>)
                            EXCEPT !.sig = node[s].exec.pid], k.res)
    /\ UNCHANGED <<fs, owner, nextPid, node, op, disk>>

\* Node.Clean: os.RemoveAll(n.GetDirectory())
Clean(s, ok) ==
    /\ pc[s] = "clean"
    /\ LET c == CleanNode(node[s], fs, ok) IN
        /\ fs' = c.fs
        /\ AfterClean(s, AddEv(trace[s], c.ev), c.res)
    /\ UNCHANGED <<live, owner, nextPid, node, op, disk>>

\* Node.Resume, first part: n.buildExec()
ResumeBuildExec(s, fail) ==
    /\ pc[s] = "resume"
    /\ LET b == BuildExec(node[s], fs, fail)
           t == AddEv(trace[s], b.ev)
       IN /\ node' = [node EXCEPT ![s] = b.node]
          /\ fs' = b.fs
          /\ IF b.res = "ok"
             THEN /\ pc' = [pc EXCEPT ![s] = "launch"]
                  /\ trace' = [trace EXCEPT ![s] = t]
             ELSE AfterResume(s, t, "err")
    /\ UNCHANGED <<live, owner, nextPid, op, disk>>

\* Node.Resume, second part: the launcher selected by n.Type starts the
\* server and records its pid in n.Exec
ResumeLaunch(s, ok) ==
    /\ pc[s] = "launch"
    /\ LET bin == LauncherFor(node[s].type) IN
       IF ok /\ bin # "none" /\ nextPid <= MaxPid
       THEN /\ live' = live \cup {nextPid}
            /\ owner' = [owner EXCEPT ![nextPid] = node[s].name]
            /\ nextPid' = nextPid + 1
            /\ node' = [node EXCEPT ![s].exec.pid = nextPid]
            /\ AfterLaunch(s, [AddEv(trace[s], <<"launch">>)
                                    EXCEPT !.launch = bin, !.bin = bin,
                                           !.pid = nextPid], "ok")
       ELSE /\ AfterLaunch(s, [trace[s] EXCEPT !.launch = "err", !.bin = bin], "err")
            /\ UNCHANGED <<live, owner, nextPid, node>>
    /\ UNCHANGED <<fs, op, disk>>

\* Node.Resume, last part: return n.SaveConfig()
ResumeSave(s, openOk, writeOk) ==
    /\ pc[s] = "save"
    /\ LET w == SaveConfig(node[s], fs, openOk, writeOk) IN
        /\ node' = [node EXCEPT ![s] = w.node]
        /\ fs' = w.fs
        /\ AfterResume(s, AddEv(trace[s], w.ev), w.res)
    /\ UNCHANGED <<live, owner, nextPid, op, disk>>

\* The operation has returned to its caller, which keeps the Node
Return(s) ==
    /\ pc[s] = "done"
    /\ pc' = [pc EXCEPT ![s] = "ready"]
    /\ op' = [op EXCEPT ![s] = "none"]
    /\ disk' = [disk EXCEPT ![s] = NoNode]
    /\ trace' = [trace EXCEPT ![s] = NoTrace]
    /\ fs' = [d \in DirNames |-> MarkOld(fs[d])]
    /\ UNCHANGED <<live, owner, nextPid, node>>

\* The supervisor process ends normally: its in-memory Node is gone
Exit(s) ==
    /\ pc[s] = "ready"
    /\ pc' = [pc EXCEPT ![s] = "idle"]
    /\ node' = [node EXCEPT ![s] = NoNode]
    /\ UNCHANGED <<fs, live, owner, nextPid, op, disk, trace>>

\* The supervisor process dies in the middle of an operation (or after a panic)
Crash(s) ==
    /\ Busy(s)
    /\ pc[s] # "done"
    /\ pc' = [pc EXCEPT ![s] = "idle"]
    /\ node' = [node EXCEPT ![s] = NoNode]
    /\ op' = [op EXCEPT ![s] = "none"]
    /\ disk' = [disk EXCEPT ![s] = NoNode]
    /\ trace' = [trace EXCEPT ![s] = [NoTrace EXCEPT !.lost = (pc[s] = "save")]]
    /\ fs' = [d \in DirNames |-> MarkOld(fs[d])]
    /\ UNCHANGED <<live, owner, nextPid>>

\* A running server writes its storage data below its node directory
ServerWrite(p) ==
    /\ p \in live
    /\ DirExists(fs, owner[p])
    /\ ~fs[owner[p]].data
    /\ fs' = [fs EXCEPT ![owner[p]].data = TRUE,
                        ![owner[p]].old =
                            IF \E s \in Sup : Busy(s) THEN @ ELSE @ \cup {DATA_NAME}]
    /\ UNCHANGED <<live, owner, nextPid, node, pc, op, disk, trace>>

Step(s) ==
    \/ \E name \in NodeNames, b \in LifecycleBuilds : Build(s, name, b[1], b[2])
    \/ \E n \in LiteralNodes : Literal(s, n)
    \/ \E name \in NodeNames, openOk \in BOOLEAN : Load(s, name, openOk)
    \/ \E o \in {"Start", "Resume", "Kill", "Clean"} : Call(s, o)
    \/ \E openOk \in BOOLEAN : KillLoad(s, openOk)
    \/ KillDisk(s)
    \/ KillMem(s)
    \/ \E ok \in BOOLEAN : Clean(s, ok)
    \/ \E fail \in BuildExecFaults : ResumeBuildExec(s, fail)
    \/ \E ok \in BOOLEAN : ResumeLaunch(s, ok)
    \/ \E openOk, writeOk \in BOOLEAN : ResumeSave(s, openOk, writeOk)
    \/ Return(s)
    \/ Exit(s)
    \/ Crash(s)

\* One supervisor invocation at a time
Next ==
    \/ Step(1)
    \/ \E p \in Pids : ServerWrite(p)

Spec == Init /\ [][Next]_vars

----------------------------------------------------------------------------
(* Properties of the lifecycle (specification Spec)                        *)

ResumePcs == {"resume", "launch", "save"}
Plain(dv) == IF dv = NoDir THEN dv ELSE [dv EXCEPT !.old = {}]
Has(q, e) == \E i \in 1..Len(q) : q[i] = e
Before(q, a, b) == \A i, j \in 1..Len(q) : (q[i] = a /\ q[j] = b) => i < j
AllFiles == {NODE_JSON_NAME, INSTANCE_CONFIG_NAME, DATA_NAME}

EvRank(e) ==
    CASE e \in {"read", "signal"} -> 1
      [] e = "rmall" -> 2
      [] OTHER -> 3

\* C1: Start runs Kill, then Clean, then Resume; Clean and Resume are
\* attempted whatever Kill returned, and Start fails exactly when Clean or
\* Resume fails.
C1_StartResult ==
    \A s \in Sup : op[s] = "Start" =>
        LET t == trace[s] IN
        /\ \A i, j \in 1..Len(t.ev) : i < j => EvRank(t.ev[i]) <= EvRank(t.ev[j])
        /\ (pc[s] = "clean") => (t.kill # "none")
        /\ (pc[s] \in ResumePcs) => (t.kill # "none" /\ t.clean = "ok")
        /\ (pc[s] = "done") =>
            /\ t.kill # "none"
            /\ t.clean # "none"
            /\ (t.clean = "ok") => (t.resume # "none")
            /\ (t.res = "err") <=> (t.clean = "err" \/ t.resume = "err")
            /\ t.res \in {"ok", "err"}

\* A Start that succeeded although its Kill failed
C1_Witness ==
    \E s \in Sup : /\ op[s] = "Start" /\ pc[s] = "done"
                   /\ trace[s].kill = "err" /\ trace[s].res = "ok"

\* C2: an operation called on a node that does not validate changes neither
\* the node directories nor the processes.
C2_ValidatedBeforeEffects ==
    [][\A s \in Sup :
         (Busy(s) /\ ~trace[s].valid0 /\ pc'[s] # pc[s])
            => /\ \A d \in DirNames : Plain(fs'[d]) = Plain(fs[d])
               /\ live' = live
               /\ nextPid' = nextPid]_vars

\* C3: when Start returns success, the only live process of the node's name
\* is the one Start has just launched.
C3_StartDiscardsPrevious ==
    \A s \in Sup :
        (op[s] = "Start" /\ pc[s] = "done" /\ trace[s].res = "ok")
            => {p \in live : owner[p] = node[s].name} = {node[s].exec.pid}

\* C4: Resume writes config.hcl before it invokes the launcher and node.json
\* only after the launcher succeeded; a successful Resume leaves a node.json
\* that records the node with the launched pid, a failed launcher leaves
\* node.json as it was.
C4_ResumeOrder ==
    \A s \in Sup : (Busy(s) /\ op[s] \in {"Start", "Resume"}) =>
        LET t == trace[s]
            n == node[s]
            d == GetDirectory(n)
        IN
        /\ Before(t.ev, "hcl", "launch")
        /\ Before(t.ev, "launch", "json")
        /\ Has(t.ev, "json") => (Has(t.ev, "launch") /\ t.launch \notin {"none", "err"})
        /\ (pc[s] = "launch" /\ IsNil(n.config.dev)) =>
                (Has(t.ev, "hcl") /\ fs[d].hcl = ToConfig(n.config, d))
        /\ (t.launch = "err") =>
                (~Has(t.ev, "json")
                 /\ (fs[d].json # NoFile => NODE_JSON_NAME \in fs[d].old))
        /\ (t.resume = "ok") =>
                /\ DirExists(fs, d)
                /\ fs[d].json = EncodeNode(n)
                /\ fs[d].json.v["name"] = JStr(n.name)
                /\ fs[d].json.v["type"] = JStr(n.type)
                /\ fs[d].json.v["exec"].v["pid"] = JNum(t.pid)
                /\ t.pid \in Pids
                /\ n.exec.pid = t.pid

\* A Resume that succeeded for a node with an instance configuration
C4_Witness ==
    \E s \in Sup : /\ op[s] = "Resume" /\ pc[s] = "done"
                   /\ trace[s].resume = "ok"
                   /\ trace[s].ev = <<"mkdir", "hcl", "launch", "json">>

\* The pid that the node.json of directory d records (0 when there is none)
SnapshotPid(f, d) ==
    IF DirExists(f, d) /\ f[d].json.t = "obj" /\ HasKey(f[d].json, "exec")
       /\ f[d].json.v["exec"].t = "obj"
    THEN f[d].json.v["exec"].v["pid"].v
    ELSE 0

Loadable(f, d) == DirExists(f, d) /\ f[d].json.t = "obj"

HoldsPid(n, p) == IF n = NoNode THEN FALSE ELSE IF IsNil(n.exec) THEN FALSE ELSE n.exec.pid = p
Recorded(p) == \E d \in DirNames : SnapshotPid(fs, d) = p
Held(p) == \E s \in Sup : HoldsPid(node[s], p) \/ HoldsPid(disk[s], p)
Lost(p) == p \in live /\ ~Recorded(p) /\ ~Held(p)

\* C6: a supervisor that dies between the launcher's success and the
\* snapshot write leaves a running process that no snapshot records, and no
\* later operation of a fresh invocation terminates that process.
C6_LostProcessStaysLive ==
    /\ [](\A s \in Sup : trace[s].lost => \E p \in Pids : Lost(p))
    /\ [][\A p \in Pids : Lost(p) => Lost(p)']_vars

\* After such a crash, a Kill of a fresh invocation has returned and the
\* process is still running
C6_Witness ==
    \E s \in Sup, p \in Pids :
        /\ trace[s].lost /\ op[s] = "Kill" /\ pc[s] = "done"
        /\ Lost(p) /\ owner[p] = node[s].name

\* C7: Start removes every stale file before the new instance configuration
\* is written: between Clean and Resume the directory holds nothing, and
\* afterwards nothing in it predates the Start.
C7_StartCleansStale ==
    \A s \in Sup : op[s] = "Start" =>
        LET t == trace[s] IN
        /\ (pc[s] = "resume") => (PreFiles(node[s], fs) = {})
        /\ (pc[s] \in ResumePcs \/ (pc[s] = "done" /\ t.clean = "ok")) =>
                \A d \in DirNames :
                    (d = GetDirectory(node[s]) /\ DirExists(fs, d)) => fs[d].old = {}
        /\ Before(t.ev, "rmall", "hcl")
        /\ Has(t.ev, "hcl") => Has(t.ev, "rmall")

\* A Start that succeeded on a directory that held a stale node.json,
\* config.hcl and storage data
C7_Witness ==
    \E s \in Sup : /\ op[s] = "Start" /\ pc[s] = "done"
                   /\ trace[s].res = "ok"
                   /\ trace[s].pre = AllFiles
                   /\ Has(trace[s].ev, "hcl")

\* C8: Resume removes nothing that was in the node directory when it was
\* called; of those files it rewrites at most config.hcl and node.json.
C8_ResumeNonDestructive ==
    \A s \in Sup : (op[s] = "Resume" /\ Busy(s)) =>
        LET t == trace[s]
            d == GetDirectory(node[s])
        IN
        /\ t.pre \subseteq PreFiles(node[s], fs)
        /\ (t.pre # {}) =>
                (t.pre \ {NODE_JSON_NAME, INSTANCE_CONFIG_NAME}) \subseteq fs[d].old

\* A Resume that succeeded on a directory that already held all three files
C8_Witness ==
    \E s \in Sup : /\ op[s] = "Resume" /\ pc[s] = "done"
                   /\ trace[s].res = "ok"
                   /\ trace[s].pre = AllFiles
                   /\ Has(trace[s].ev, "hcl")

\* C18: Resume of a node whose type is none of "", "bao", "vault" fails in
\* validation before it creates the directory, writes a file or invokes a
\* launcher, so the dispatch never takes its default branch; for a valid
\* type the one launcher invoked is the one the type selects.
C18_TypeRejectedEarly ==
    \A s \in Sup : (Busy(s) /\ op[s] \in {"Start", "Resume"}) =>
        LET t == trace[s]
            n == node[s]
        IN
        /\ t.bin # "none"
        /\ (n.type \notin NodeTypes) =>
                /\ pc[s] \notin {"launch", "save"}
                /\ \A e \in {"mkdir", "hcl", "launch", "json"} : ~Has(t.ev, e)
                /\ t.bin = ""
                /\ (pc[s] = "done" /\ op[s] = "Resume") =>
                        (t.res = "err" /\ t.ev = <<>>)
        /\ (t.bin # "") =>
                /\ n.type \in NodeTypes
                /\ t.bin = (CASE n.type = "" -> "generic"
                               [] n.type = "bao" -> "bao"
                               [] n.type = "vault" -> "vault")
                /\ Cardinality({i \in 1..Len(t.ev) : t.ev[i] = "launch"}) <= 1
        /\ (pc[s] = "save") => (t.bin # "" /\ Has(t.ev, "launch"))

\* A Resume of a node of type "bad" that has returned
C18_Witness ==
    \E s \in Sup : /\ op[s] = "Resume" /\ pc[s] = "done"
                   /\ node[s].type = "bad"
                   /\ trace[s].res = "err"

\* C19: Kill changes neither the caller's Node nor the node directories; it
\* ends at most the one process it signals, and after a successful Kill
\* through the snapshot the snapshot still records the pid of the process
\* that was ended, which is the pid a later Kill signals.
C19_KillFrame ==
    /\ [](\A s \in Sup : (op[s] = "Kill" /\ pc[s] = "done" /\ NoHandle(node[s])) =>
            LET t == trace[s] IN
            /\ Has(t.ev, "signal") => (t.sig = SnapshotPid(fs, node[s].name))
            /\ (t.res = "ok") => (SnapshotPid(fs, node[s].name) = t.sig
                                   /\ t.sig # 0 /\ t.sig \notin live))
    /\ [][\A s \in Sup :
            (op[s] = "Kill" /\ pc[s] \in {"kill", "kill_signal"}
                /\ pc'[s] \notin {pc[s], "idle"})
            => /\ node'[s] = node[s]
               /\ fs' = fs
               /\ owner' = owner /\ nextPid' = nextPid
               /\ live' \subseteq live
               /\ (live \ live') \subseteq {trace'[s].sig}]_vars

\* A second Kill through the snapshot: it signalled the recorded pid, whose
\* process an earlier Kill had ended
C19_Witness ==
    \E s \in Sup : /\ op[s] = "Kill" /\ pc[s] = "done"
                   /\ IsNil(node[s].exec)
                   /\ trace[s].res = "err"
                   /\ trace[s].sig # 0
                   /\ trace[s].sig = SnapshotPid(fs, node[s].name)
                   /\ trace[s].sig \notin live

----------------------------------------------------------------------------
(* Two supervisor invocations at once on the same node name, each running  *)
(* one Start or Kill, every call succeeding (specification SpecRace)       *)

RaceNode == MkNode("n1", "bao", Nil, NodeConfig(<<L1>>, S1, Nil))
RunningNode ==
    [RaceNode EXCEPT !.exec = ExecEnvironment(<<Arg("server"), ConfigArg("n1")>>,
                                              "n1", L1.address, 1)]
RunningDir == Dir(EncodeNode(RunningNode), ToConfig(RaceNode.config, "n1"), FALSE,
                  {NODE_JSON_NAME, INSTANCE_CONFIG_NAME})

\* Either the node was never started, or it is running and recorded; the
\* second supervisor may be the one that launched it and kept the handle.
InitRace ==
    /\ pc = [s \in Sup |-> "ready"]
    /\ op = [s \in Sup |-> "none"]
    /\ disk = [s \in Sup |-> NoNode]
    /\ trace = [s \in Sup |-> NoTrace]
    /\ \/ /\ fs = [d \in DirNames |-> NoDir]
          /\ live = {}
          /\ owner = [p \in Pids |-> NoProc]
          /\ nextPid = 1
          /\ node = [s \in Sup |-> RaceNode]
       \/ /\ fs = [d \in DirNames |-> IF d = "n1" THEN RunningDir ELSE NoDir]
          /\ live = {1}
          /\ owner = [p \in Pids |-> IF p = 1 THEN "n1" ELSE NoProc]
          /\ nextPid = 2
          /\ node \in {[s \in Sup |-> IF s = 1 THEN RaceNode ELSE n] :
                            n \in {RaceNode, RunningNode}}

RaceStep(s) ==
    \/ \E o \in {"Start", "Kill"} : Call(s, o)
    \/ KillLoad(s, TRUE)
    \/ KillDisk(s)
    \/ KillMem(s)
    \/ Clean(s, TRUE)
    \/ ResumeBuildExec(s, "none")
    \/ ResumeLaunch(s, TRUE)
    \/ ResumeSave(s, TRUE, TRUE)

NextRace == \E s \in Sup : RaceStep(s)

SpecRace == InitRace /\ [][NextRace]_vars

InsideOp == {"kill", "kill_signal", "clean", "resume", "launch", "save"}
RaceOver == \A s \in Sup : pc[s] = "done"
Unrecorded(p) == p \in live /\ owner[p] = "n1" /\ SnapshotPid(fs, "n1") # p

----------------------------------------------------------------------------
(* The lifecycle over several node directories: nodes built with a given,  *)
(* an unclean and a defaulted name or loaded by name, every call but the   *)
(* snapshot write succeeding (specification SpecNames)                     *)

NamedBuilds ==
    {<<"n1", "bao", <<L1, S1>>>>, <<"n1/", "bao", <<L1, S1>>>>, <<"", "", <<D1>>>>}
InvalidNodes == {n \in LiteralNodes : n.name # "" /\ n.type \notin NodeTypes}

\* n.SaveConfig() called directly on a Node that does not validate
SaveInvalid(s, openOk, writeOk) ==
    /\ pc[s] = "ready"
    /\ Validate(node[s]).res # "ok"
    /\ LET w == SaveConfig(node[s], fs, openOk, writeOk) IN
        /\ node' = [node EXCEPT ![s] = w.node]
        /\ fs' = w.fs
        /\ trace' = [trace EXCEPT ![s] = [NoTrace EXCEPT !.save = w.res, !.ev = w.ev]]
    /\ op' = [op EXCEPT ![s] = "SaveConfig"]
    /\ pc' = [pc EXCEPT ![s] = "done"]
    /\ UNCHANGED <<live, owner, nextPid, disk>>

NamesStep(s) ==
    \/ \E b \in NamedBuilds : Build(s, b[1], b[2], b[3])
    \/ \E n \in InvalidNodes : Literal(s, n)
    \/ \E name \in DirNames : Load(s, name, TRUE)
    \/ \E o \in {"Start", "Resume", "Kill", "Clean"} : Call(s, o)
    \/ KillLoad(s, TRUE)
    \/ KillDisk(s)
    \/ KillMem(s)
    \/ Clean(s, TRUE)
    \/ ResumeBuildExec(s, "none")
    \/ ResumeLaunch(s, TRUE)
    \/ \E writeOk \in BOOLEAN : ResumeSave(s, TRUE, writeOk)
    \/ \E openOk, writeOk \in BOOLEAN : SaveInvalid(s, openOk, writeOk)
    \/ Return(s)
    \/ Exit(s)

NextNames == NamesStep(1)

SpecNames == Init /\ [][NextNames]_vars

HasSnapshot(d) == DirExists(fs, d) /\ fs[d].json # NoFile
\* The Node a complete node.json decodes to
Decoded(j) == FromInterface(ZeroNode(""), j)
WellFormed(j) ==
    /\ j.t = "obj"
    /\ Decoded(j).res = "ok"
    /\ Validate(Decoded(j).node).res = "ok"
    /\ j.v["type"].v \in NodeTypes
    /\ HasKey(j, "exec") /\ j.v["exec"].t = "obj"
\* A direct SaveConfig that failed validation made no filesystem call, and
\* every node.json is the file that was there when it was called
FailedSaveKeepsSnapshot ==
    \A s \in Sup : (op[s] = "SaveConfig" /\ pc[s] = "done") =>
        /\ trace[s].save = "err"
        /\ trace[s].ev = <<>>
        /\ \A d \in DirNames : HasSnapshot(d) => NODE_JSON_NAME \in fs[d].old

\* C20 as stated: every node.json on disk is the snapshot of a Node that
\* validates, carries the name of its directory, a valid type and an exec
\* that is not null; a SaveConfig that fails validation leaves node.json
\* as it was.
C20_SnapshotWellFormed ==
    /\ \A d \in DirNames : HasSnapshot(d) =>
            (WellFormed(fs[d].json) /\ fs[d].json.v["name"].v = d)
    /\ FailedSaveKeepsSnapshot

\* C20 as amended: every node.json on disk is either cut short by a write
\* that failed, or the snapshot of a Node that validates, whose name
\* GetDirectory maps to its directory, with a valid type and an exec that is
\* not null; a SaveConfig that fails validation leaves node.json as it was.
C20_CompleteSnapshotWellFormed ==
    /\ \A d \in DirNames : HasSnapshot(d) =>
            \/ fs[d].json = Truncated
            \/ /\ WellFormed(fs[d].json)
               /\ GetDirectory(Decoded(fs[d].json).node) = d
    /\ FailedSaveKeepsSnapshot

\* Two snapshots on disk, one of them of a node whose name was defaulted,
\* after a SaveConfig that failed validation
C20_Witness ==
    /\ HasSnapshot("n1") /\ fs["n1"].json # Truncated
    /\ HasSnapshot("prod") /\ fs["prod"].json # Truncated
    /\ \E s \in Sup : op[s] = "SaveConfig" /\ pc[s] = "done" /\ trace[s].save = "err"

----------------------------------------------------------------------------
(* SaveConfig and LoadNode called directly (specification SpecSnapshot):   *)
(* either a valid Node is saved and loaded again, or LoadNode meets a      *)
(* node.json that something else left in the directory.                    *)

SeqsUpTo(S, n) == UNION {[1..k -> S] : k \in 0..n}

L2 == Listener("127.0.0.1:8400")
SnapshotConfigs ==
    {NodeConfig(ls, st, dv) :
        ls \in SeqsUpTo({L1, L2}, MaxListeners),
        st \in {Nil, S1},
        dv \in {Nil, D1, DevConfig("root")}}
SnapshotExecs ==
    {Nil} \cup
    {ExecEnvironment(ar, "n1", DEV_ADDRESS, pd) :
        ar \in {<<>>, <<Arg("server")>>, <<Arg("server"), ConfigArg("n1")>>},
        pd \in 0..MaxPid}
SnapshotNodes ==
    {n \in {MkNode(nm, ty, ex, cf) :
                nm \in {"", "n1"}, ty \in NodeTypes,
                ex \in SnapshotExecs, cf \in SnapshotConfigs} :
        Validate(n).res = "ok"}

Absent == [t |-> "absent"]
SampleObject(nm, ty, ex, cf) ==
    LET pick == [name |-> nm, type |-> ty, exec |-> ex, config |-> cf] IN
    JObj([key \in {x \in DOMAIN pick : pick[x] # Absent} |-> pick[key]])
FileSamples ==
    {NoFile, Truncated, JNull, JArr(<<>>), JStr("n1")} \cup
    {SampleObject(nm, ty, ex, cf) :
        nm \in {Absent, JStr("n1"), JNum(1)},
        ty \in {Absent, JStr("bao"), JStr("bad")},
        ex \in {Absent, JNull, JStr("x"),
                EncodeExec(ExecEnvironment(<<Arg("server")>>, "n1", DEV_ADDRESS, 1))},
        cf \in {Absent, JNull, EncodeConfig(EmptyConfig),
                EncodeConfig(NodeConfig(<<>>, Nil, D1)),
                JObj([listeners |-> JStr("x")])}}

InitSnapshot ==
    /\ live = {}
    /\ owner = [p \in Pids |-> NoProc]
    /\ nextPid = 1
    /\ op = [s \in Sup |-> "none"]
    /\ disk = [s \in Sup |-> NoNode]
    /\ trace = [s \in Sup |-> NoTrace]
    /\ \/ /\ node \in {[s \in Sup |-> IF s = 1 THEN n ELSE NoNode] : n \in SnapshotNodes}
          /\ pc = [s \in Sup |-> IF s = 1 THEN "ready" ELSE "idle"]
          /\ fs \in {[d \in DirNames |-> dv] : dv \in {NoDir, EmptyDir}}
       \/ /\ node = [s \in Sup |-> NoNode]
          /\ pc = [s \in Sup |-> "idle"]
          /\ fs \in {[d \in DirNames |-> Dir(j, NoFile, FALSE, {})] : j \in FileSamples}

\* n.SaveConfig()
SaveOp(s, openOk, writeOk) ==
    /\ pc[s] = "ready"
    /\ LET w == SaveConfig(node[s], fs, openOk, writeOk) IN
        /\ node' = [node EXCEPT ![s] = w.node]
        /\ fs' = w.fs
        /\ trace' = [trace EXCEPT ![s] = [NoTrace EXCEPT !.save = w.res, !.ev = w.ev]]
    /\ op' = [op EXCEPT ![s] = "SaveConfig"]
    /\ pc' = [pc EXCEPT ![s] = "saved"]
    /\ UNCHANGED <<live, owner, nextPid, disk>>

\* LoadNode(name), with the name of the node just saved when there is one
LoadOp(s, name, openOk) ==
    /\ pc[s] \in {"idle", "saved"}
    /\ (pc[s] = "saved") => (name = node[s].name)
    /\ (pc[s] = "idle") => (name \in NodeNames)
    /\ LET l == LoadNode(name, fs, openOk) IN
        /\ disk' = [disk EXCEPT ![s] = l.node]
        /\ trace' = [trace EXCEPT ![s] = [@ EXCEPT !.load = l.res, !.opened = openOk]]
        /\ pc' = [pc EXCEPT ![s] = IF l.res = "panic" THEN "panic" ELSE "loaded"]
    /\ op' = [op EXCEPT ![s] = "LoadNode"]
    /\ UNCHANGED <<fs, live, owner, nextPid, node>>

NextSnapshot ==
    \/ \E openOk, writeOk \in BOOLEAN : SaveOp(1, openOk, writeOk)
    \/ \E name \in DirNames, openOk \in BOOLEAN : LoadOp(1, name, openOk)

SpecSnapshot == InitSnapshot /\ [][NextSnapshot]_vars

\* C9: a Node saved with SaveConfig and loaded again by its name comes back
\* with the same name, type, exec (args, directory, connect address, pid)
\* and configuration (listeners in order, storage, dev).
C9_RoundTrip ==
    \A s \in Sup :
        (op[s] = "LoadNode" /\ trace[s].save = "ok" /\ trace[s].opened) =>
            /\ trace[s].load = "ok"
            /\ disk[s].name = node[s].name
            /\ disk[s].type = node[s].type
            /\ disk[s].exec = node[s].exec
            /\ disk[s].config.listeners = node[s].config.listeners
            /\ disk[s].config.storage = node[s].config.storage
            /\ disk[s].config.dev = node[s].config.dev

\* A round trip of a node with two listeners, a storage backend and an
\* ExecEnvironment that has arguments and a pid
C9_Witness ==
    \E s \in Sup :
        /\ op[s] = "LoadNode" /\ trace[s].save = "ok" /\ trace[s].load = "ok"
        /\ Len(node[s].config.listeners) >= 2
        /\ ~IsNil(node[s].config.storage)
        /\ HoldsPid(node[s], 1)
        /\ Len(node[s].exec.args) = 2

LacksField(j) ==
    j.t = "obj" /\ (~HasKey(j, "name") \/ ~HasKey(j, "type") \/ ~HasKey(j, "config"))

\* C10: LoadNode never panics; when the snapshot is missing, unreadable, not
\* decodable or lacks a field it returns an error, and with an error no Node.
C10_LoadFailsCleanly ==
    \A s \in Sup : (op[s] = "LoadNode" /\ trace[s].save = "none") =>
        LET j == fs["n1"].json IN
        /\ trace[s].load \in {"ok", "err"}
        /\ (trace[s].load = "err") => (disk[s] = NoNode)
        /\ (~trace[s].opened \/ j \in {NoFile, Truncated} \/ LacksField(j))
                => (trace[s].load = "err")

----------------------------------------------------------------------------
(* BuildNode and Validate called directly (specification SpecBuild)        *)

S2 == Storage("raft")
D2 == DevConfig("root")
Unknown == [k |-> "other"]   \* a value of none of the three option types
OptSamples == {L1, L2, S1, S2, D1, D2, Unknown}
BuildInputs ==
    {[name |-> nm, product |-> ty, opts |-> os] :
        nm \in {"", "n1"}, ty \in {"", "bao", "bad"},
        os \in SeqsUpTo(OptSamples, MaxOpts)}
ValidateNodes ==
    {MkNode(nm, ty, ex, cf) :
        nm \in {"", "n1", "dev"}, ty \in NodeTypes \cup {"bad"},
        ex \in {Nil, ExecEnvironment(<<Arg("server")>>, "n1", DEV_ADDRESS, 1)},
        cf \in SnapshotConfigs}

InitBuild ==
    /\ fs = [d \in DirNames |-> NoDir]
    /\ live = {}
    /\ owner = [p \in Pids |-> NoProc]
    /\ nextPid = 1
    /\ op = [s \in Sup |-> "none"]
    /\ disk = [s \in Sup |-> NoNode]
    /\ \/ /\ node = [s \in Sup |-> NoNode]
          /\ pc = [s \in Sup |-> "idle"]
          /\ trace \in {[s \in Sup |-> IF s = 1 THEN [NoTrace EXCEPT !.in = i]
                                                ELSE NoTrace] : i \in BuildInputs}
       \/ /\ node \in {[s \in Sup |-> IF s = 1 THEN n ELSE NoNode] : n \in ValidateNodes}
          /\ pc = [s \in Sup |-> IF s = 1 THEN "ready" ELSE "idle"]
          /\ trace = [s \in Sup |-> NoTrace]

\* BuildNode(name, product, opts...)
BuildOp(s) ==
    /\ pc[s] = "idle"
    /\ ~IsNil(trace[s].in)
    /\ LET i == trace[s].in
           b == BuildNode(i.name, i.product, i.opts)
       IN /\ node' = [node EXCEPT ![s] = b.node]
          /\ trace' = [trace EXCEPT ![s] = [@ EXCEPT !.res = b.res, !.index = b.index]]
    /\ op' = [op EXCEPT ![s] = "BuildNode"]
    /\ pc' = [pc EXCEPT ![s] = "built"]
    /\ UNCHANGED <<fs, live, owner, nextPid, disk>>

\* n.Validate(), at most twice in a row
ValidateOp(s) ==
    /\ pc[s] \in {"ready", "built", "validated"}
    /\ node[s] # NoNode
    /\ Len(trace[s].hist) < 2
    /\ LET v == Validate(node[s]) IN
        /\ node' = [node EXCEPT ![s] = v.node]
        /\ trace' = [trace EXCEPT ![s] =
                        [@ EXCEPT !.hist = Append(@, [res |-> v.res, why |-> v.why,
                                                      before |-> node[s],
                                                      after |-> v.node])]]
    /\ op' = [op EXCEPT ![s] = "Validate"]
    /\ pc' = [pc EXCEPT ![s] = "validated"]
    /\ UNCHANGED <<fs, live, owner, nextPid, disk>>

NextBuild ==
    \/ BuildOp(1)
    \/ ValidateOp(1)

SpecBuild == InitBuild /\ [][NextBuild]_vars

OptTags == {"listener", "storage", "dev"}
UnknownAt(opts) == {i \in 1..Len(opts) : opts[i].k \notin OptTags}
Min(S) == CHOOSE x \in S : \A y \in S : x <= y
IsListenerOpt(o) == o.k = "listener"
LastOf(opts, tag) ==
    LET I == {i \in 1..Len(opts) : opts[i].k = tag} IN
    IF I = {} THEN Nil ELSE opts[CHOOSE i \in I : \A j \in I : j <= i]

\* C11: BuildNode keeps the Listener options in their order, the last Storage
\* and the last DevConfig option; an option of another type makes it fail
\* with the index of the first such option and without a Node.
C11_BuildClassifies ==
    \A s \in Sup : (pc[s] = "built") =>
        LET i == trace[s].in
            t == trace[s]
            n == node[s]
        IN
        /\ (UnknownAt(i.opts) # {}) =>
                /\ t.res = "err"
                /\ n = NoNode
                /\ t.index = Min(UnknownAt(i.opts)) - 1
        /\ (UnknownAt(i.opts) = {}) => (t.index = 0 - 1)
        /\ (t.res = "ok") =>
                /\ n.config.listeners = SelectSeq(i.opts, IsListenerOpt)
                /\ n.config.storage = LastOf(i.opts, "storage")
                /\ n.config.dev = LastOf(i.opts, "dev")
        /\ (t.res = "err") => (n = NoNode)

\* A node built from two listeners around two storage options
C11_Witness ==
    \E s \in Sup : /\ pc[s] = "built" /\ trace[s].res = "ok"
                   /\ trace[s].in.opts = <<S1, L2, S2>>
                   /\ node[s].config.storage = S2

\* C12: a second Validate returns what the first returned and changes no
\* field; Validate changes nothing on a valid node that has a name.
C12_ValidateIdempotent ==
    \A s \in Sup :
        LET h == trace[s].hist IN
        /\ (Len(h) >= 1 /\ h[1].res = "ok" /\ h[1].before.name # "") =>
                (h[1].after = h[1].before)
        /\ (Len(h) = 2) =>
                /\ h[2].res = h[1].res
                /\ h[2].why = h[1].why
                /\ h[2].after = h[2].before

\* Two calls on a node whose name the first call defaulted
C12_Witness ==
    \E s \in Sup : /\ Len(trace[s].hist) = 2
                   /\ trace[s].hist[1].before.name = ""
                   /\ trace[s].hist[1].res = "ok"
                   /\ trace[s].hist[2].res = "ok"

\* BuildNode was called with an empty name, an empty type and one DevConfig
DevScenario(s) ==
    /\ pc[s] = "built" /\ trace[s].in.name = "" /\ trace[s].in.product = ""
    /\ Len(trace[s].in.opts) = 1 /\ trace[s].in.opts[1].k = "dev"

\* C13 as stated: BuildNode("", "", DevConfig) succeeds and names the node
\* "dev".
C13_DevDefaultName ==
    \A s \in Sup : DevScenario(s) => (trace[s].res = "ok" /\ node[s].name = "dev")

\* C13 as amended: BuildNode("", "", DevConfig) succeeds and names the node
\* "prod"; without a DevConfig an empty name becomes "dev".
C13_DevDefaultNameProd ==
    \A s \in Sup :
        /\ DevScenario(s) =>
            /\ trace[s].res = "ok"
            /\ node[s].name = "prod"
            /\ node[s].type = ""
            /\ node[s].config = NodeConfig(<<>>, Nil, trace[s].in.opts[1])
        /\ (pc[s] = "built" /\ trace[s].res = "ok" /\ trace[s].in.name = "")
            => (node[s].name = IF IsNil(node[s].config.dev) THEN "dev" ELSE "prod")

\* The node built in that scenario
C13_Witness ==
    \E s \in Sup : DevScenario(s) /\ trace[s].res = "ok" /\ node[s].name = "prod"

----------------------------------------------------------------------------
(* Clean, ListNodes, buildExec, SaveConfig and LoadConfig called directly, *)
(* up to two calls in a row (specification SpecCalls)                      *)

SavedNode ==
    MkNode("n1", "bao", ExecEnvironment(<<Arg("server"), ConfigArg("n1")>>, "n1",
                                        L1.address, 1),
           NodeConfig(<<L1>>, S1, Nil))
CallNodes ==
    {MkNode("n1", "bao", Nil, NodeConfig(<<L1>>, S1, Nil)),
     MkNode("n1", "", Nil, NodeConfig(<<>>, Nil, D1)),
     MkNode("", "", Nil, NodeConfig(<<>>, Nil, D1)),
     MkNode("n1", "bad", Nil, NodeConfig(<<>>, Nil, D1)),
     SavedNode}
UsedDir == Dir(EncodeNode(SavedNode), ToConfig(SavedNode.config, "n1"), TRUE, {})
CallDisks ==
    {[d \in DirNames |-> IF d \in D THEN dv ELSE NoDir] :
        D \in SUBSET {"n1", "prod"}, dv \in {EmptyDir, UsedDir}}

InitCalls ==
    /\ live = {}
    /\ owner = [p \in Pids |-> NoProc]
    /\ nextPid = 1
    /\ op = [s \in Sup |-> "none"]
    /\ disk = [s \in Sup |-> NoNode]
    /\ trace = [s \in Sup |-> NoTrace]
    /\ pc = [s \in Sup |-> IF s = 1 THEN "ready" ELSE "idle"]
    /\ node \in {[s \in Sup |-> IF s = 1 THEN n ELSE NoNode] : n \in CallNodes}
    /\ fs \in CallDisks

\* One direct call o with outcome r = [res, node, fs, ev, io]
CallOp(s, o, r) ==
    /\ pc[s] = "ready"
    /\ Len(trace[s].hist) < 2
    /\ node' = [node EXCEPT ![s] = r.node]
    /\ fs' = r.fs
    /\ op' = [op EXCEPT ![s] = o]
    /\ trace' = [trace EXCEPT ![s] =
                    [@ EXCEPT !.hist = Append(@, [op |-> o, res |-> r.res, io |-> r.io,
                                                  ev |-> r.ev, called |-> node[s],
                                                  result |-> r.node,
                                                  before |-> fs, after |-> r.fs])]]
    /\ UNCHANGED <<live, owner, nextPid, pc, disk>>

CleanOp(s, ok) == CallOp(s, "Clean", CleanNode(node[s], fs, ok))

ListOp(s, readOk) ==
    LET l == ListNodes(fs, readOk) IN
    CallOp(s, "ListNodes",
           [res |-> l.res, node |-> node[s], fs |-> fs, ev |-> <<>>, io |-> l.io])

BuildExecOp(s, fail) == CallOp(s, "buildExec", BuildExec(node[s], fs, fail))

SaveConfigOp(s, openOk, writeOk) ==
    CallOp(s, "SaveConfig", SaveConfig(node[s], fs, openOk, writeOk))

LoadConfigOp(s, openOk) ==
    LET l == LoadConfig(node[s], fs, openOk) IN
    /\ l.res # "panic"
    /\ CallOp(s, "LoadConfig",
              [res |-> l.res, node |-> l.node, fs |-> fs, ev |-> <<>>, io |-> l.io])

NextCalls ==
    \/ \E ok \in BOOLEAN : CleanOp(1, ok)
    \/ \E readOk \in BOOLEAN : ListOp(1, readOk)
    \/ \E fail \in BuildExecFaults : BuildExecOp(1, fail)
    \/ \E openOk, writeOk \in BOOLEAN : SaveConfigOp(1, openOk, writeOk)
    \/ \E openOk \in BOOLEAN : LoadConfigOp(1, openOk)

SpecCalls == InitCalls /\ [][NextCalls]_vars

\* C14: Clean of a node whose directory does not exist succeeds and changes
\* nothing; a Clean after a Clean succeeds and leaves the filesystem as the
\* first Clean left it.
C14_CleanIdempotent ==
    \A s \in Sup :
        LET h == trace[s].hist IN
        /\ \A i \in 1..Len(h) :
                (h[i].op = "Clean" /\ ~Exists(h[i].before, GetDirectory(h[i].called)))
                    => (h[i].res = "ok" /\ h[i].after = h[i].before)
        /\ (Len(h) = 2 /\ h[1].op = "Clean" /\ h[2].op = "Clean" /\ h[1].res = "ok")
                => /\ h[2].res = "ok"
                   /\ h[2].after = h[1].after
                   /\ ~Exists(h[1].after, GetDirectory(h[1].called))

\* Two Cleans in a row of a node whose directory held files
C14_Witness ==
    \E s \in Sup :
        LET h == trace[s].hist IN
        /\ Len(h) = 2 /\ h[1].op = "Clean" /\ h[2].op = "Clean"
        /\ h[1].before["n1"] = UsedDir /\ h[1].called.name = "n1"
        /\ h[2].res = "ok"

\* C15: an operation in which a filesystem call failed returns an error,
\* and it makes no filesystem call twice.
C15_IoErrorsReturned ==
    \A s \in Sup : \A i \in 1..Len(trace[s].hist) :
        LET c == trace[s].hist[i] IN
        /\ (c.io # "") => (c.res = "err")
        /\ \A j, k \in 1..Len(c.ev) : (c.ev[j] = c.ev[k]) => (j = k)

\* C17: a buildExec that fails leaves n.Exec as it was; one that succeeds
\* installs an ExecEnvironment with the derived arguments, directory and
\* connect address and pid 0, whose arguments end with the reference to
\* config.hcl exactly when the configuration body is not empty.
C17_NoPartialExec ==
    \A s \in Sup : \A i \in 1..Len(trace[s].hist) :
        LET c == trace[s].hist[i]
            n == c.result
            d == GetDirectory(n)
            e == n.exec
            body == ToConfig(n.config, d)
            derived == AddArgs(n.config, d)
        IN (c.op = "buildExec") =>
            /\ (c.res = "err") => (n.exec = c.called.exec)
            /\ (c.res = "ok") =>
                /\ ~IsNil(e)
                /\ e.pid = 0
                /\ e.directory = d
                /\ e.connect = GetConnectAddr(n.config).addr
                /\ IsNil(body) => (e.args = derived)
                /\ ~IsNil(body) => (e.args = Append(derived, ConfigArg(d))
                                     /\ c.after[d].hcl = body)
                /\ (e.args[Len(e.args)].a = "-config=") <=> ~IsNil(body)

\* A buildExec that failed writing config.hcl on a node that held the
\* ExecEnvironment of a running process
C17_Witness ==
    \E s \in Sup : \E i \in 1..Len(trace[s].hist) :
        LET c == trace[s].hist[i] IN
        /\ c.op = "buildExec" /\ c.res = "err" /\ c.io = "write"
        /\ c.called.exec = SavedNode.exec

====
